---- MODULE Spec2Model ----
(***************************************************************************)
(* Lifecycle model of faust's AppService (src/faust/app/service.py): the   *)
(* service that starts and stops an application, its mode-dependent        *)
(* dependency graph, its first-start / start / started hooks, the recovery *)
(* barrier, and the activation of extra tasks and extra services.          *)
(*                                                                         *)
(* The Service base class (start/stop/restart, add_runtime_dependency,     *)
(* wait_for_stopped, add_future) is imported by service.py and is modelled *)
(* from the lifecycle contract of spec.md sections 3, 4.1 and 4.5.         *)
(***************************************************************************)
EXTENDS Integers, Sequences, FiniteSets, TLC

\* ------------------------------------------------------------- bounds
MaxAgents == 2
MaxTasks == 2
MaxExtra == 2
MaxRestarts == 1
MaxReentrant == 1

\* ------------------------------------------------------------ helpers
Range(s) == {s[i] : i \in 1..Len(s)}

RECURSIVE Reverse(_)
Reverse(s) == IF s = <<>> THEN <<>> ELSE Append(Reverse(Tail(s)), Head(s))

RECURSIVE Count(_, _)
Count(s, x) ==
    IF s = <<>> THEN 0
    ELSE (IF Head(s) = x THEN 1 ELSE 0) + Count(Tail(s), x)

NoDup(s) == \A i, j \in 1..Len(s) : i # j => s[i] # s[j]

\* The value of an attribute that was never assigned.
None == <<"<None>">>

\* ------------------------------------------------- the application
\* An app has no agent or MaxAgents agents.
AgentPool == <<"agent1", "agent2", "agent3">>

\* Sensor collections a user can have registered before the app starts.
SensorInputs == {<<"sensor1">>, <<"monitor", "sensor1">>}

\* Task callables, each with the number of parameters it declares.
TaskPool ==
    <<[name |-> "task1", params |-> 0], [name |-> "task2", params |-> 1],
      [name |-> "task3", params |-> 1], [name |-> "task4", params |-> 0]>>

\* Entries registered with @app.service in registration order: a class
\* or an instance.
ExtraPool ==
    <<[name |-> "extra1", isclass |-> TRUE], [name |-> "extra2", isclass |-> FALSE],
      [name |-> "extra3", isclass |-> FALSE], [name |-> "extra4", isclass |-> TRUE]>>

Apps ==
    [client_only : BOOLEAN,
     agents : {SubSeq(AgentPool, 1, n) : n \in {0, MaxAgents}},
     sensors : SensorInputs,
     _tasks : {SubSeq(TaskPool, 1, n) : n \in 0..MaxTasks}
              \cup {Reverse(SubSeq(TaskPool, 1, n)) : n \in 0..MaxTasks},
     _extra_services : {SubSeq(ExtraPool, 1, n) : n \in 0..MaxExtra},
     on_startup_finished : BOOLEAN]

\* The service a class entry yields when it is instantiated.
Instantiate(name) ==
    CASE name = "extra1" -> "extra1()"
      [] name = "extra2" -> "extra2()"
      [] name = "extra3" -> "extra3()"
      [] OTHER -> "extra4()"

\* sensors.add(sensor): add is the method of a set, which a list does not
\* have.  A sensor not yet held is appended; one already held stays once.
SensorsAdd(sensors, sensor) ==
    IF sensor \in Range(sensors) THEN sensors ELSE Append(sensors, sensor)

\* ------------------------------------------- AppService, pure parts
\* Variant: the table manager is started in client-only mode too.
_components_client_with_tables(a) ==
    [sensors |-> a.sensors,
     graph |-> <<"producer", "consumer", "_reply_consumer", "topics", "tables",
                 "_fetcher">>]

_components_client(a) ==
    [sensors |-> a.sensors,
     graph |-> <<"producer", "consumer", "_reply_consumer", "topics", "_fetcher">>]

\* Variant: the producer is listed after the consumer.
_components_server_producer_late(a) ==
    LET sensors == SensorsAdd(a.sensors, "monitor") IN
    [sensors |-> sensors,
     graph |-> sensors
               \o <<"consumer">>
               \o <<"producer">>
               \o <<"_leader_assignor">>
               \o <<"_reply_consumer">>
               \o a.agents
               \o <<"topics">>
               \o <<"tables">>
               \o <<"_fetcher">>]

\* Variant: the monitor is not added to the sensors.
_components_server_without_monitor(a) ==
    [sensors |-> a.sensors,
     graph |-> a.sensors
               \o <<"producer">>
               \o <<"consumer">>
               \o <<"_leader_assignor">>
               \o <<"_reply_consumer">>
               \o a.agents
               \o <<"topics">>
               \o <<"tables">>
               \o <<"_fetcher">>]

\* Variant: the monitor is also listed on its own, next to the sensors.
_components_server_monitor_listed(a) ==
    LET sensors == SensorsAdd(a.sensors, "monitor") IN
    [sensors |-> sensors,
     graph |-> sensors
               \o <<"monitor">>
               \o <<"producer">>
               \o <<"consumer">>
               \o <<"_leader_assignor">>
               \o <<"_reply_consumer">>
               \o a.agents
               \o <<"topics">>
               \o <<"tables">>
               \o <<"_fetcher">>]

\* The monitor is added to the sensors, then the graph is listed.
_components_server(a) ==
    LET sensors == SensorsAdd(a.sensors, "monitor") IN
    [sensors |-> sensors,
     graph |-> sensors
               \o <<"producer">>
               \o <<"consumer">>
               \o <<"_leader_assignor">>
               \o <<"_reply_consumer">>
               \o a.agents
               \o <<"topics">>
               \o <<"tables">>
               \o <<"_fetcher">>]

\* Variant: the mode flag is not consulted.
on_init_dependencies_server_only(a) == _components_server(a)

on_init_dependencies(a) ==
    IF a.client_only THEN _components_client(a) ELSE _components_server(a)

_prepare_subservice(service) ==
    IF service.isclass THEN Instantiate(service.name) ELSE service.name

\* Variant: every task is passed the app.
InvokeTask_always_app(task) == [task |-> task.name, args |-> <<"app">>]

\* One extra task invoked: with the app when it declares a parameter.
InvokeTask(task) ==
    IF task.params > 0
    THEN [task |-> task.name, args |-> <<"app">>]
    ELSE [task |-> task.name, args |-> <<>>]

\* on_started_init_extra_tasks: the calls made and the futures added, in
\* the order of app._tasks.
RECURSIVE on_started_init_extra_tasks(_)
on_started_init_extra_tasks(ts) ==
    IF ts = <<>> THEN [calls |-> <<>>, futures |-> <<>>]
    ELSE LET rest == on_started_init_extra_tasks(Tail(ts)) IN
         [calls |-> <<InvokeTask(Head(ts))>> \o rest.calls,
          futures |-> <<Head(ts).name>> \o rest.futures]

\* Variant: the agents are checked in server mode only.
on_first_start_server_check(a) ==
    IF ~a.client_only /\ a.agents = <<>>
    THEN [called |-> <<"app._create_directories">>,
          raised |-> "ImproperlyConfigured"]
    ELSE [called |-> <<"app._create_directories", "app.on_first_start">>,
          raised |-> "none"]

\* Variant: the check for registered agents is missing.
on_first_start_unchecked(a) ==
    [called |-> <<"app._create_directories", "app.on_first_start">>,
     raised |-> "none"]

\* on_first_start: the application calls made, and the exception raised.
on_first_start(a) ==
    IF a.agents = <<>>
    THEN [called |-> <<"app._create_directories">>,
          raised |-> "ImproperlyConfigured"]
    ELSE [called |-> <<"app._create_directories", "app.on_first_start">>,
          raised |-> "none"]

\* Variant: on_start does not finalize the app.
on_start_unfinalized(a) == <<"app.on_start">>

\* Variant: the directories are created by on_start.
on_start_creating_directories(a) ==
    <<"app._create_directories", "app.finalize", "app.on_start">>

on_start(a) == <<"app.finalize", "app.on_start">>

on_stop(a) == <<"app.on_stop">>

on_shutdown(a) == <<"app.on_shutdown">>

on_restart(a) == <<"app.on_restart">>

\* The list on_started_init_extra_services builds on its first run.
PrepareAll(entries) ==
    [i \in 1..Len(entries) |-> _prepare_subservice(entries[i])]

\* ------------------------------------------------------ Web (base.py)
\* Two Web instances are compared.
WebIds == {"a", "b"}

WebInputs ==
    [bind : {"localhost", "0.0.0.0", "example.com"}, port : {80, 6066, 8080}]

DecimalDigits == <<"0", "1", "2", "3", "4", "5", "6", "7", "8", "9">>

\* '{}'.format(n) for an int n >= 0: its decimal digits.
RECURSIVE Format(_)
Format(n) ==
    IF n < 10 THEN <<DecimalDigits[n + 1]>>
    ELSE Append(Format(n \div 10), DecimalDigits[(n % 10) + 1])

\* Web.url: 'http://localhost:{}/'.format(self.port)
Url(w) == <<"http://", "localhost", ":">> \o Format(w.port) \o <<"/">>

\* ------------------------------------------------------------ state
Services ==
    {"monitor", "sensor1", "producer", "consumer", "_leader_assignor",
     "_reply_consumer", "topics", "tables", "_fetcher"}
    \cup Range(AgentPool)
    \cup {_prepare_subservice(ExtraPool[i]) : i \in 1..Len(ExtraPool)}

\* Invocations of on_started in progress: 0 is the one start() makes, 1 a
\* call made by another caller.
Inv == {0, 1}

VARIABLES
    app,                       \* the application object
    state,                     \* the orchestrator's lifecycle state
    children,                  \* its dependency graph (self._children)
    declared,                  \* what on_init_dependencies returned
    cstate,                    \* lifecycle state of every service
    restart_count,
    _extra_service_instances,
    recovery_completed,        \* app.tables.recovery_completed
    stopRequested,             \* the node's stopped event
    restarting,                \* the running stop belongs to restart()
    error,                     \* exception start() raised, or None
    pc, idx,                   \* start(): position, next child
    spc, stopIdx,              \* stop(): position, next child
    ospc, osi,                 \* on_started invocations: position, loop index
    reentered,                 \* on_started calls made from outside start()
    futures,                   \* tracked background activities
    hooks,                     \* application hooks called, in order
    startLog, stopLog,         \* children started / stopped this run
    steps,                     \* per invocation: on_started steps done
    calls,                     \* per invocation: task calls made
    outcome,                   \* per invocation: how the barrier wait ended
    materialized,              \* times the instance list was built
    web,                       \* Web instances: bind and port of each
    url                        \* the url read from each, once read

vars ==
    <<app, state, children, declared, cstate, restart_count,
      _extra_service_instances, recovery_completed, stopRequested,
      restarting, error, pc, idx, spc, stopIdx, ospc, osi, reentered,
      futures, hooks, startLog, stopLog, steps, calls, outcome,
      materialized, web, url>>

webVars == <<web, url>>
appVars == <<app>>
nodeVars == <<state, children, declared, cstate, restart_count>>
startVars == <<pc, idx, error>>
stopVars == <<spc, stopIdx, stopRequested, restarting>>
osVars == <<ospc, osi, reentered, _extra_service_instances>>
histVars ==
    <<hooks, startLog, stopLog, steps, calls, outcome, materialized>>

\* The state of a service that was constructed and not started yet.
Constructed ==
    /\ state = "init"
    /\ children = <<>>
    /\ declared = None
    /\ cstate = [s \in Services |-> "init"]
    /\ restart_count = 0
    /\ _extra_service_instances = None
    /\ recovery_completed = FALSE
    /\ stopRequested = FALSE
    /\ restarting = FALSE
    /\ error = "none"
    /\ pc = "idle"
    /\ idx = 1
    /\ spc = "idle"
    /\ stopIdx = 0
    /\ ospc = [i \in Inv |-> "idle"]
    /\ osi = [i \in Inv |-> 1]
    /\ reentered = 0
    /\ futures = <<>>
    /\ hooks = <<>>
    /\ startLog = <<>>
    /\ stopLog = <<>>
    /\ steps = [i \in Inv |-> <<>>]
    /\ calls = [i \in Inv |-> <<>>]
    /\ outcome = [i \in Inv |-> "none"]
    /\ materialized = 0

Init ==
    /\ app \in Apps
    /\ Constructed
    /\ web = [k \in WebIds |-> [bind |-> "localhost", port |-> 6066]]
    /\ url = [k \in WebIds |-> None]

\* ------------------------------------------------------- start()
\* init -> starting; the dependency graph is resolved on the first start.
Start ==
    /\ pc = "idle"
    /\ state = "init"
    /\ LET r == on_init_dependencies(app) IN
       /\ app' = [app EXCEPT !.sensors = r.sensors]
       /\ children' = r.graph
       /\ declared' = r.graph
    /\ state' = "starting"
    /\ pc' = "on_first_start"
    /\ UNCHANGED <<cstate, restart_count, idx, error>>
    /\ UNCHANGED <<stopVars, osVars, histVars, recovery_completed, futures>>
    /\ UNCHANGED webVars

\* The first-start hook: runs before any child is started.
FirstStart ==
    /\ pc = "on_first_start"
    /\ LET r == on_first_start(app) IN
       /\ hooks' = hooks \o r.called
       /\ error' = r.raised
       /\ IF r.raised = "none"
          THEN /\ pc' = "children"
               /\ state' = state
          ELSE /\ pc' = "failed"
               /\ state' = "crashed"
    /\ UNCHANGED <<app, children, declared, cstate, restart_count, idx>>
    /\ UNCHANGED <<stopVars, osVars, recovery_completed, futures>>
    /\ UNCHANGED <<startLog, stopLog, steps, calls, outcome, materialized>>
    /\ UNCHANGED webVars

\* The next child of the graph begins to start.
StartChild ==
    /\ pc = "children"
    /\ idx <= Len(children)
    /\ LET c == children[idx] IN
       /\ cstate' = [cstate EXCEPT ![c] = "starting"]
       /\ recovery_completed' =
             IF c = "tables" THEN FALSE ELSE recovery_completed
    /\ pc' = "child_wait"
    /\ UNCHANGED <<app, state, children, declared, restart_count, idx, error>>
    /\ UNCHANGED <<stopVars, osVars, histVars, futures>>
    /\ UNCHANGED webVars

\* That child reports started; the start moves on to the next one.
ChildStarted ==
    /\ pc = "child_wait"
    /\ LET c == children[idx] IN
       /\ cstate' = [cstate EXCEPT ![c] = "started"]
       /\ startLog' = Append(startLog, c)
    /\ idx' = idx + 1
    /\ pc' = "children"
    /\ UNCHANGED <<app, state, children, declared, restart_count, error>>
    /\ UNCHANGED <<stopVars, osVars, recovery_completed, futures>>
    /\ UNCHANGED <<hooks, stopLog, steps, calls, outcome, materialized>>
    /\ UNCHANGED webVars

\* All children are started: the on_start hook, then the node is started
\* and start() enters on_started, which waits on the recovery barrier.
StartHook ==
    /\ pc = "children"
    /\ idx > Len(children)
    /\ hooks' = hooks \o on_start(app)
    /\ state' = "started"
    /\ pc' = "on_started"
    /\ ospc' = [ospc EXCEPT ![0] = "barrier"]
    /\ UNCHANGED <<app, children, declared, cstate, restart_count, idx, error>>
    /\ UNCHANGED <<stopVars, osi, reentered, _extra_service_instances>>
    /\ UNCHANGED <<recovery_completed, futures>>
    /\ UNCHANGED <<startLog, stopLog, steps, calls, outcome, materialized>>
    /\ UNCHANGED webVars

\* All nodes run on one cooperative scheduler: between building the
\* instance list and the next await of add_runtime_dependency an
\* on_started runs without suspension, and nothing else runs meanwhile.
Running(i) == ospc[i] \in {"services", "add"}

NoneRunning == \A j \in Inv : ~Running(j)

OthersSuspended(i) == \A j \in Inv \ {i} : ~Running(j)

\* The table manager finishes recovery.
RecoveryCompleted ==
    /\ NoneRunning
    /\ cstate["tables"] = "started"
    /\ ~recovery_completed
    /\ recovery_completed' = TRUE
    /\ UNCHANGED <<appVars, nodeVars, startVars, stopVars, osVars, histVars,
                   futures>>
    /\ UNCHANGED webVars

\* ---------------------------------------------------- on_started()
\* on_started called again by a caller other than start().
ReenterOnStarted(i) ==
    /\ OthersSuspended(i)
    /\ i > 0
    /\ reentered < MaxReentrant
    /\ state = "started"
    /\ ospc[i] \in {"idle", "done"}
    /\ ospc' = [ospc EXCEPT ![i] = "barrier"]
    /\ osi' = [osi EXCEPT ![i] = 1]
    /\ reentered' = reentered + 1
    /\ steps' = [steps EXCEPT ![i] = <<>>]
    /\ calls' = [calls EXCEPT ![i] = <<>>]
    /\ outcome' = [outcome EXCEPT ![i] = "none"]
    /\ UNCHANGED <<appVars, nodeVars, startVars, stopVars,
                   _extra_service_instances, recovery_completed, futures>>
    /\ UNCHANGED <<hooks, startLog, stopLog, materialized>>
    /\ UNCHANGED webVars

\* on_started returns: start() returns with it when start() called it.
Return(i) == IF i = 0 THEN "done" ELSE pc

\* Variant: a stop request does not end the wait on the barrier.
BarrierWake_recovery_only(i) ==
    /\ OthersSuspended(i)
    /\ ospc[i] = "barrier"
    /\ recovery_completed
    /\ IF stopRequested
       THEN /\ outcome' = [outcome EXCEPT ![i] = "interrupted"]
            /\ ospc' = [ospc EXCEPT ![i] = "done"]
            /\ pc' = Return(i)
            /\ UNCHANGED <<calls, futures, steps>>
       ELSE /\ outcome' = [outcome EXCEPT ![i] = "passed"]
            /\ LET r == on_started_init_extra_tasks(app._tasks) IN
               /\ calls' = [calls EXCEPT ![i] = calls[i] \o r.calls]
               /\ futures' = futures \o r.futures
            /\ steps' = [steps EXCEPT ![i] = Append(steps[i], "extra_tasks")]
            /\ ospc' = [ospc EXCEPT ![i] = "services"]
            /\ pc' = pc
    /\ UNCHANGED <<appVars, nodeVars, idx, error, stopVars, osi, reentered,
                   _extra_service_instances, recovery_completed>>
    /\ UNCHANGED <<hooks, startLog, stopLog, materialized>>
    /\ UNCHANGED webVars

\* Variant: the end of recovery does not end the wait on the barrier.
BarrierWake_stop_only(i) ==
    /\ OthersSuspended(i)
    /\ ospc[i] = "barrier"
    /\ stopRequested
    /\ IF stopRequested
       THEN /\ outcome' = [outcome EXCEPT ![i] = "interrupted"]
            /\ ospc' = [ospc EXCEPT ![i] = "done"]
            /\ pc' = Return(i)
            /\ UNCHANGED <<calls, futures, steps>>
       ELSE /\ outcome' = [outcome EXCEPT ![i] = "passed"]
            /\ LET r == on_started_init_extra_tasks(app._tasks) IN
               /\ calls' = [calls EXCEPT ![i] = calls[i] \o r.calls]
               /\ futures' = futures \o r.futures
            /\ steps' = [steps EXCEPT ![i] = Append(steps[i], "extra_tasks")]
            /\ ospc' = [ospc EXCEPT ![i] = "services"]
            /\ pc' = pc
    /\ UNCHANGED <<appVars, nodeVars, idx, error, stopVars, osi, reentered,
                   _extra_service_instances, recovery_completed>>
    /\ UNCHANGED <<hooks, startLog, stopLog, materialized>>
    /\ UNCHANGED webVars

\* Variant: the tasks are activated only while no activity is tracked.
BarrierWake_tasks_once(i) ==
    /\ OthersSuspended(i)
    /\ ospc[i] = "barrier"
    /\ recovery_completed \/ stopRequested
    /\ IF stopRequested
       THEN /\ outcome' = [outcome EXCEPT ![i] = "interrupted"]
            /\ ospc' = [ospc EXCEPT ![i] = "done"]
            /\ pc' = Return(i)
            /\ UNCHANGED <<calls, futures, steps>>
       ELSE /\ outcome' = [outcome EXCEPT ![i] = "passed"]
            /\ LET r == IF futures = <<>>
                        THEN on_started_init_extra_tasks(app._tasks)
                        ELSE [calls |-> <<>>, futures |-> <<>>] IN
               /\ calls' = [calls EXCEPT ![i] = calls[i] \o r.calls]
               /\ futures' = futures \o r.futures
            /\ steps' = [steps EXCEPT ![i] = Append(steps[i], "extra_tasks")]
            /\ ospc' = [ospc EXCEPT ![i] = "services"]
            /\ pc' = pc
    /\ UNCHANGED <<appVars, nodeVars, idx, error, stopVars, osi, reentered,
                   _extra_service_instances, recovery_completed>>
    /\ UNCHANGED <<hooks, startLog, stopLog, materialized>>
    /\ UNCHANGED webVars

\* Variant: the result of wait_for_stopped is not tested.
BarrierWake_unconditional(i) ==
    /\ OthersSuspended(i)
    /\ ospc[i] = "barrier"
    /\ recovery_completed \/ stopRequested
    /\ outcome' = [outcome EXCEPT
                      ![i] = IF stopRequested THEN "interrupted" ELSE "passed"]
    /\ LET r == on_started_init_extra_tasks(app._tasks) IN
       /\ calls' = [calls EXCEPT ![i] = calls[i] \o r.calls]
       /\ futures' = futures \o r.futures
    /\ steps' = [steps EXCEPT ![i] = Append(steps[i], "extra_tasks")]
    /\ ospc' = [ospc EXCEPT ![i] = "services"]
    /\ UNCHANGED <<appVars, nodeVars, startVars, stopVars, osi, reentered,
                   _extra_service_instances, recovery_completed>>
    /\ UNCHANGED <<hooks, startLog, stopLog, materialized>>
    /\ UNCHANGED webVars

\* wait_for_stopped returns.  Stopped: nothing more is done.  Otherwise
\* the extra tasks are activated before the next suspension.
BarrierWake(i) ==
    /\ OthersSuspended(i)
    /\ ospc[i] = "barrier"
    /\ recovery_completed \/ stopRequested
    /\ IF stopRequested
       THEN /\ outcome' = [outcome EXCEPT ![i] = "interrupted"]
            /\ ospc' = [ospc EXCEPT ![i] = "done"]
            /\ pc' = Return(i)
            /\ UNCHANGED <<calls, futures, steps>>
       ELSE /\ outcome' = [outcome EXCEPT ![i] = "passed"]
            /\ LET r == on_started_init_extra_tasks(app._tasks) IN
               /\ calls' = [calls EXCEPT ![i] = calls[i] \o r.calls]
               /\ futures' = futures \o r.futures
            /\ steps' = [steps EXCEPT ![i] = Append(steps[i], "extra_tasks")]
            /\ ospc' = [ospc EXCEPT ![i] = "services"]
            /\ pc' = pc
    /\ UNCHANGED <<appVars, nodeVars, idx, error, stopVars, osi, reentered,
                   _extra_service_instances, recovery_completed>>
    /\ UNCHANGED <<hooks, startLog, stopLog, materialized>>
    /\ UNCHANGED webVars

\* Variant: the instance list is built on every call.
InitExtraServices_unguarded(i) ==
    /\ OthersSuspended(i)
    /\ ospc[i] = "services"
    /\ _extra_service_instances' = PrepareAll(app._extra_services)
    /\ materialized' = materialized + 1
    /\ osi' = [osi EXCEPT ![i] = 1]
    /\ ospc' = [ospc EXCEPT ![i] = "add"]
    /\ UNCHANGED <<appVars, nodeVars, startVars, stopVars, reentered,
                   recovery_completed, futures>>
    /\ UNCHANGED <<hooks, startLog, stopLog, steps, calls, outcome>>
    /\ UNCHANGED webVars

\* on_started_init_extra_services: the instances are built when the list
\* is still unset; otherwise there is nothing to do.
InitExtraServices(i) ==
    /\ OthersSuspended(i)
    /\ ospc[i] = "services"
    /\ IF _extra_service_instances = None
       THEN /\ _extra_service_instances' = PrepareAll(app._extra_services)
            /\ materialized' = materialized + 1
            /\ osi' = [osi EXCEPT ![i] = 1]
            /\ ospc' = [ospc EXCEPT ![i] = "add"]
            /\ steps' = steps
       ELSE /\ ospc' = [ospc EXCEPT ![i] = "ready"]
            /\ steps' = [steps EXCEPT ![i] = Append(steps[i], "extra_services")]
            /\ UNCHANGED <<_extra_service_instances, materialized, osi>>
    /\ UNCHANGED <<appVars, nodeVars, startVars, stopVars, reentered,
                   recovery_completed, futures>>
    /\ UNCHANGED <<hooks, startLog, stopLog, calls, outcome>>
    /\ UNCHANGED webVars

\* The service the loop over the instance list is at.
NextExtraService(i) == _extra_service_instances[osi[i]]

\* add_runtime_dependency: the service joins the graph and begins to start.
AddRuntimeDependency(i) ==
    /\ OthersSuspended(i)
    /\ ospc[i] = "add"
    /\ IF osi[i] <= Len(_extra_service_instances)
       THEN LET service == NextExtraService(i) IN
            /\ children' = Append(children, service)
            /\ cstate' = [cstate EXCEPT ![service] = "starting"]
            /\ ospc' = [ospc EXCEPT ![i] = "add_wait"]
            /\ steps' = steps
       ELSE /\ ospc' = [ospc EXCEPT ![i] = "ready"]
            /\ steps' = [steps EXCEPT ![i] = Append(steps[i], "extra_services")]
            /\ UNCHANGED <<children, cstate>>
    /\ UNCHANGED <<app, state, declared, restart_count, startVars, stopVars,
                   osi, reentered, _extra_service_instances,
                   recovery_completed, futures>>
    /\ UNCHANGED <<hooks, startLog, stopLog, calls, outcome, materialized>>
    /\ UNCHANGED webVars

\* The service added last reports started, unless a stop got to it first.
RuntimeDependencyStarted(i) ==
    /\ OthersSuspended(i)
    /\ ospc[i] = "add_wait"
    /\ LET service == NextExtraService(i) IN
       IF cstate[service] = "starting"
       THEN /\ cstate' = [cstate EXCEPT ![service] = "started"]
            /\ startLog' = Append(startLog, service)
       ELSE UNCHANGED <<cstate, startLog>>
    /\ osi' = [osi EXCEPT ![i] = osi[i] + 1]
    /\ ospc' = [ospc EXCEPT ![i] = "add"]
    /\ UNCHANGED <<app, state, children, declared, restart_count, startVars,
                   stopVars, reentered, _extra_service_instances,
                   recovery_completed, futures>>
    /\ UNCHANGED <<hooks, stopLog, steps, calls, outcome, materialized>>
    /\ UNCHANGED webVars

\* Variant: the application's on_started hook runs before the callback.
StartupFinished_after_hook(i) ==
    /\ OthersSuspended(i)
    /\ ospc[i] = "ready"
    /\ steps' = IF app.on_startup_finished
                THEN [steps EXCEPT ![i] =
                        steps[i] \o <<"app.on_started", "on_startup_finished">>]
                ELSE [steps EXCEPT ![i] = Append(steps[i], "app.on_started")]
    /\ ospc' = [ospc EXCEPT ![i] = "done"]
    /\ pc' = IF i = 0 THEN "done" ELSE pc
    /\ UNCHANGED <<appVars, nodeVars, idx, error, stopVars, osi, reentered,
                   _extra_service_instances, recovery_completed, futures>>
    /\ UNCHANGED <<hooks, startLog, stopLog, calls, outcome, materialized>>
    /\ UNCHANGED webVars

\* The app-is-fully-started callback, when one is set.
StartupFinished(i) ==
    /\ OthersSuspended(i)
    /\ ospc[i] = "ready"
    /\ steps' = IF app.on_startup_finished
                THEN [steps EXCEPT ![i] = Append(steps[i], "on_startup_finished")]
                ELSE steps
    /\ ospc' = [ospc EXCEPT ![i] = "app_on_started"]
    /\ UNCHANGED <<appVars, nodeVars, startVars, stopVars, osi, reentered,
                   _extra_service_instances, recovery_completed, futures>>
    /\ UNCHANGED <<hooks, startLog, stopLog, calls, outcome, materialized>>
    /\ UNCHANGED webVars

\* The application's own on_started hook; on_started returns.
AppOnStarted(i) ==
    /\ OthersSuspended(i)
    /\ ospc[i] = "app_on_started"
    /\ steps' = [steps EXCEPT ![i] = Append(steps[i], "app.on_started")]
    /\ ospc' = [ospc EXCEPT ![i] = "done"]
    /\ pc' = Return(i)
    /\ UNCHANGED <<appVars, nodeVars, idx, error, stopVars, osi, reentered,
                   _extra_service_instances, recovery_completed, futures>>
    /\ UNCHANGED <<hooks, startLog, stopLog, calls, outcome, materialized>>
    /\ UNCHANGED webVars

\* ----------------------------------------------------------- stop()
\* stop() on a started node: started -> stopping; the stopped event is
\* set, which wakes every wait_for_stopped.
StopRequest ==
    /\ NoneRunning
    /\ state = "started"
    /\ spc = "idle"
    /\ state' = "stopping"
    /\ stopRequested' = TRUE
    /\ restarting' = FALSE
    /\ spc' = "on_stop"
    /\ UNCHANGED <<app, children, declared, cstate, restart_count, stopIdx>>
    /\ UNCHANGED <<startVars, osVars, recovery_completed, futures>>
    /\ UNCHANGED <<hooks, startLog, stopLog, steps, calls, outcome, materialized>>
    /\ UNCHANGED webVars

\* restart() called once start() has returned: it begins with a stop().
RestartRequest ==
    /\ NoneRunning
    /\ state = "started"
    /\ spc = "idle"
    /\ pc = "done"
    /\ \A i \in Inv : ospc[i] \in {"idle", "done"}
    /\ restart_count < MaxRestarts
    /\ restart_count' = restart_count + 1
    /\ state' = "stopping"
    /\ stopRequested' = TRUE
    /\ restarting' = TRUE
    /\ spc' = "on_stop"
    /\ UNCHANGED <<app, children, declared, cstate, stopIdx>>
    /\ UNCHANGED <<startVars, osVars, recovery_completed, futures>>
    /\ UNCHANGED <<hooks, startLog, stopLog, steps, calls, outcome, materialized>>
    /\ UNCHANGED webVars

\* The on_stop hook; then the children are taken in reverse, from the
\* last child the graph holds at this moment.
StopHook ==
    /\ NoneRunning
    /\ spc = "on_stop"
    /\ hooks' = hooks \o on_stop(app)
    /\ stopIdx' = Len(children)
    /\ spc' = "children"
    /\ UNCHANGED <<appVars, nodeVars, startVars, osVars, stopRequested,
                   restarting, recovery_completed, futures>>
    /\ UNCHANGED <<startLog, stopLog, steps, calls, outcome, materialized>>
    /\ UNCHANGED webVars

StopChild ==
    /\ NoneRunning
    /\ spc = "children"
    /\ stopIdx >= 1
    /\ LET c == children[stopIdx] IN
       /\ cstate' = [cstate EXCEPT ![c] = "stopped"]
       /\ stopLog' = Append(stopLog, c)
    /\ stopIdx' = stopIdx - 1
    /\ UNCHANGED <<app, state, children, declared, restart_count>>
    /\ UNCHANGED <<startVars, osVars, spc, stopRequested, restarting,
                   recovery_completed, futures>>
    /\ UNCHANGED <<hooks, startLog, steps, calls, outcome, materialized>>
    /\ UNCHANGED webVars

\* Every child is stopped: the tracked activities are cancelled and the
\* node is stopped; a stop that is final runs the on_shutdown hook.
Stopped ==
    /\ NoneRunning
    /\ spc = "children"
    /\ stopIdx = 0
    /\ futures' = <<>>
    /\ hooks' = IF restarting THEN hooks ELSE hooks \o on_shutdown(app)
    /\ state' = "stopped"
    /\ spc' = "done"
    /\ UNCHANGED <<app, children, declared, cstate, restart_count>>
    /\ UNCHANGED <<startVars, osVars, stopIdx, stopRequested, restarting,
                   recovery_completed>>
    /\ UNCHANGED <<startLog, stopLog, steps, calls, outcome, materialized>>
    /\ UNCHANGED webVars

\* -------------------------------------------------------- restart()
\* After the stop of a restart: the on_restart hook.
RestartHook ==
    /\ state = "stopped"
    /\ restarting
    /\ spc = "done"
    /\ hooks' = hooks \o on_restart(app)
    /\ state' = "restarting"
    /\ UNCHANGED <<app, children, declared, cstate, restart_count>>
    /\ UNCHANGED <<startVars, stopVars, osVars, recovery_completed, futures>>
    /\ UNCHANGED <<startLog, stopLog, steps, calls, outcome, materialized>>
    /\ UNCHANGED webVars

\* The node re-enters starting: the graph is kept and the first-start
\* hook is not run again.
Restarted ==
    /\ state = "restarting"
    /\ state' = "starting"
    /\ pc' = "children"
    /\ idx' = 1
    /\ spc' = "idle"
    /\ stopIdx' = 0
    /\ stopRequested' = FALSE
    /\ restarting' = FALSE
    /\ ospc' = [i \in Inv |-> "idle"]
    /\ osi' = [i \in Inv |-> 1]
    /\ startLog' = <<>>
    /\ stopLog' = <<>>
    /\ steps' = [i \in Inv |-> <<>>]
    /\ calls' = [i \in Inv |-> <<>>]
    /\ outcome' = [i \in Inv |-> "none"]
    /\ UNCHANGED <<app, children, declared, cstate, restart_count, error>>
    /\ UNCHANGED <<reentered, _extra_service_instances, recovery_completed,
                   futures, hooks, materialized>>
    /\ UNCHANGED webVars

\* ------------------------------------------------------------- spec
OnStarted(i) ==
    \/ ReenterOnStarted(i)
    \/ BarrierWake(i)
    \/ InitExtraServices(i)
    \/ AddRuntimeDependency(i)
    \/ RuntimeDependencyStarted(i)
    \/ StartupFinished(i)
    \/ AppOnStarted(i)

Next ==
    \/ Start
    \/ FirstStart
    \/ StartChild
    \/ ChildStarted
    \/ StartHook
    \/ RecoveryCompleted
    \/ \E i \in Inv : OnStarted(i)
    \/ StopRequest
    \/ RestartRequest
    \/ StopHook
    \/ StopChild
    \/ Stopped
    \/ RestartHook
    \/ Restarted

Spec == Init /\ [][Next]_vars

\* The steps of the start: hooks and children, taken in turn.
StartSteps == FirstStart \/ StartChild \/ ChildStarted \/ StartHook

\* The steps of one on_started call, once it was made.
OnStartedSteps(i) ==
    \/ BarrierWake(i)
    \/ InitExtraServices(i)
    \/ AddRuntimeDependency(i)
    \/ RuntimeDependencyStarted(i)
    \/ StartupFinished(i)
    \/ AppOnStarted(i)

\* The steps of a stop or restart, once it was requested.
StopSteps == StopHook \/ StopChild \/ Stopped \/ RestartHook \/ Restarted

\* The event loop runs every coroutine that is ready.  Requests from
\* outside and the end of table recovery are not promised.
Fairness ==
    /\ WF_vars(StartSteps)
    /\ \A i \in Inv : WF_vars(OnStartedSteps(i))
    /\ WF_vars(StopSteps)

FairSpec == Spec /\ Fairness

\* Table recovery ends whenever the table manager is started.
FairRecoverySpec == Spec /\ Fairness /\ WF_vars(RecoveryCompleted)

\* ---------------------------------------------------- Web.url alone
\* Any two Web instances, of an app that is not started.
WebInit ==
    /\ app = [client_only |-> FALSE, agents |-> <<"agent1">>,
              sensors |-> <<"sensor1">>, _tasks |-> <<>>,
              _extra_services |-> <<>>,
              on_startup_finished |-> FALSE]
    /\ Constructed
    /\ web \in [WebIds -> WebInputs]
    /\ url = [k \in WebIds |-> None]

\* The url property of one instance is read.
ReadUrl(k) ==
    /\ url[k] = None
    /\ url' = [url EXCEPT ![k] = Url(web[k])]
    /\ UNCHANGED <<web, appVars, nodeVars, startVars, stopVars, osVars,
                   histVars, recovery_completed, futures>>

WebNext == \E k \in WebIds : ReadUrl(k)

WebSpec == WebInit /\ [][WebNext]_vars

\* ------------------------------------------------------------ claims
IsPrefix(s, t) == Len(s) <= Len(t) /\ SubSeq(t, 1, Len(s)) = s

\* The extra services in the order they are registered on the app.
ExtraInstances == PrepareAll(app._extra_services)

\* C1: in server mode with no agent registered, start() fails with
\* ImproperlyConfigured raised by the first-start hook, and no child of
\* the graph ever begins to start or is started.
C1_ZeroAgentsStartFails ==
    (~app.client_only /\ app.agents = <<>>) =>
        /\ pc \in {"idle", "on_first_start", "failed"}
        /\ state # "started"
        /\ \A c \in Services : cstate[c] = "init"
        /\ startLog = <<>>
        /\ pc = "failed" => /\ error = "ImproperlyConfigured"
                            /\ "app.on_first_start" \notin Range(hooks)

C1_Witness ==
    /\ ~app.client_only
    /\ app.agents = <<>>
    /\ pc = "failed"
    /\ error = "ImproperlyConfigured"
    /\ children # <<>>

\* C2: when the node has stopped, the children were stopped in the exact
\* reverse of the order they were started in: the extra services first,
\* in the reverse of the order they were added in, then the declared
\* children in reverse declared order.
C2_StopReversesStart ==
    state = "stopped" =>
        /\ stopLog = Reverse(startLog)
        /\ \E n \in 0..Len(ExtraInstances) :
              stopLog = Reverse(SubSeq(ExtraInstances, 1, n)) \o Reverse(declared)

\* C3: an on_started whose wait on the recovery barrier ended because the
\* node was stopped does nothing more: it invokes no task, performs no
\* step and returns; when it is the only on_started of the first run, no
\* activity is tracked, the instance list stays unset and no extra
\* service joins the graph.
C3_InterruptedBarrierSkipsAll ==
    /\ \A i \in Inv :
          outcome[i] = "interrupted" =>
              /\ steps[i] = <<>>
              /\ calls[i] = <<>>
              /\ ospc[i] = "done"
    /\ (outcome[0] = "interrupted" /\ reentered = 0 /\ restart_count = 0) =>
          /\ futures = <<>>
          /\ _extra_service_instances = None
          /\ materialized = 0
          /\ children = declared

C3_Witness ==
    /\ outcome[0] = "interrupted"
    /\ reentered = 0
    /\ restart_count = 0
    /\ recovery_completed
    /\ app._tasks # <<>>
    /\ app._extra_services # <<>>
    /\ state = "stopped"

\* C4: the instance list is built at most once in the lifetime of the
\* node, holds one service per registered entry, and no service occurs
\* twice in the dependency graph, however often on_started runs.
C4_ExtraServicesOnce ==
    /\ materialized <= 1
    /\ _extra_service_instances = None <=> materialized = 0
    /\ _extra_service_instances # None =>
          _extra_service_instances = ExtraInstances
    /\ NoDup(children)
    /\ Len(children) <= Len(declared) + Len(ExtraInstances)

C4_Witness ==
    /\ restart_count >= 1
    /\ app._extra_services # <<>>
    /\ "extra_services" \in Range(steps[0])
    /\ "extra_services" \in Range(steps[1])
    /\ materialized = 1

\* C5: in client-only mode the resolved graph is producer, consumer,
\* reply consumer, topic router, fetcher, in this order, and the graph
\* holds no sensor, agent, leader assignor or table manager.
C5_ClientGraph ==
    (app.client_only /\ declared # None) =>
        /\ declared =
              <<"producer", "consumer", "_reply_consumer", "topics", "_fetcher">>
        /\ IsPrefix(declared, children)
        /\ Range(children) \cap
              ({"monitor", "sensor1", "_leader_assignor", "tables"}
               \cup Range(AgentPool)) = {}

C5_Witness ==
    /\ app.client_only
    /\ app.agents # <<>>
    /\ app.sensors # <<>>
    /\ state = "started"
    /\ children =
          <<"producer", "consumer", "_reply_consumer", "topics", "_fetcher">>

ExpectedSteps ==
    <<"extra_tasks", "extra_services">>
    \o (IF app.on_startup_finished THEN <<"on_startup_finished">> ELSE <<>>)
    \o <<"app.on_started">>

\* The task calls the spec asks of one activation.
ExpectedCalls ==
    [k \in 1..Len(app._tasks) |->
        [task |-> app._tasks[k].name,
         args |-> IF app._tasks[k].params = 0 THEN <<>> ELSE <<"app">>]]

TaskNames == [k \in 1..Len(app._tasks) |-> app._tasks[k].name]

\* C7: in server mode with an agent, the on_started of start() that passed
\* the barrier does, in this order and once each: extra tasks, extra
\* services, on_startup_finished when set, the app's on_started; when the
\* extra-services step is done every extra service is in the graph, and
\* started unless a stop came; without a stop the node ends started.
C7_OnStartedOrder ==
    (~app.client_only /\ app.agents # <<>> /\ outcome[0] = "passed") =>
        /\ IsPrefix(steps[0], ExpectedSteps)
        /\ steps[0] # <<>>
        /\ ospc[0] = "done" => (steps[0] = ExpectedSteps /\ pc = "done")
        /\ (ospc[0] = "done" /\ ~stopRequested) => state = "started"
        /\ ("extra_services" \in Range(steps[0]) /\ reentered = 0) =>
              /\ children = declared \o ExtraInstances
              /\ ~stopRequested =>
                    \A c \in Range(ExtraInstances) : cstate[c] = "started"

C7_Witness ==
    /\ ~app.client_only
    /\ outcome[0] = "passed"
    /\ ospc[0] = "done"
    /\ app.on_startup_finished
    /\ steps[0] =
          <<"extra_tasks", "extra_services", "on_startup_finished", "app.on_started">>
    /\ Len(app._extra_services) = 2
    /\ app._tasks # <<>>
    /\ state = "started"

\* C8: an activation of the extra tasks invokes every registered callable
\* once, in registration order, without argument when it declares no
\* parameter and with the app otherwise, and tracks one activity each.
C8_ExtraTasksOnceEach ==
    /\ \A i \in Inv :
          calls[i] = IF outcome[i] = "passed" THEN ExpectedCalls ELSE <<>>
    /\ (outcome[0] = "passed" /\ reentered = 0 /\ spc # "done") =>
          futures = TaskNames

C8_Witness ==
    /\ outcome[0] = "passed"
    /\ reentered = 0
    /\ Len(app._tasks) = 2
    /\ calls[0] = <<[task |-> "task1", args |-> <<>>],
                    [task |-> "task2", args |-> <<"app">>]>>
    /\ futures = <<"task1", "task2">>

\* C9: a started node has every child of its graph started, and a
\* stopped node has every child of its graph stopped, the extra services
\* included; the extra service whose add_runtime_dependency is in
\* progress may be starting under a started node.
C9_ChildrenFollowNode ==
    /\ state = "started" =>
          \A k \in 1..Len(children) :
              \/ cstate[children[k]] = "started"
              \/ /\ k > Len(declared)
                 /\ cstate[children[k]] = "starting"
                 /\ \E i \in Inv : /\ ospc[i] = "add_wait"
                                   /\ children[k] = NextExtraService(i)
    /\ state = "stopped" => \A c \in Range(children) : cstate[c] = "stopped"

\* Starts that have run their on_start hook so far.
StartsMade ==
    IF pc \in {"on_started", "done"} /\ ~restarting
    THEN restart_count + 1 ELSE restart_count

\* C10: the first-start hook runs in the first start and never again;
\* the on_start hook runs once in every start, restarts included.
C10_FirstStartOnce ==
    /\ Count(hooks, "app._create_directories")
          = (IF pc \in {"idle", "on_first_start"} THEN 0 ELSE 1)
    /\ Count(hooks, "app.on_first_start")
          = (IF pc \in {"idle", "on_first_start", "failed"} THEN 0 ELSE 1)
    /\ Count(hooks, "app.finalize") = StartsMade
    /\ Count(hooks, "app.on_start") = StartsMade
    /\ pc = "failed" => StartsMade = 0

C10_Witness ==
    /\ restart_count >= 1
    /\ state = "started"
    /\ pc = "done"
    /\ Count(hooks, "app.on_start") = 2
    /\ Count(hooks, "app.on_first_start") = 1

\* C11 as stated: over the lifetime of the node _create_directories and
\* finalize are each called exactly once (never a second time, and once
\* the node has started, once).
C11_FinalizeOnce ==
    /\ Count(hooks, "app._create_directories") <= 1
    /\ Count(hooks, "app.finalize") <= 1
    /\ state = "started" =>
          /\ Count(hooks, "app._create_directories") = 1
          /\ Count(hooks, "app.finalize") = 1

\* C11 amended: _create_directories is called exactly once, in the first
\* start; finalize is called once in every start, right before the
\* app's on_start hook, so once more with every restart.
C11_DirectoriesOnceFinalizePerStart ==
    /\ Count(hooks, "app._create_directories") <= 1
    /\ pc \notin {"idle", "on_first_start"} => hooks[1] = "app._create_directories"
    /\ Count(hooks, "app.finalize") = StartsMade
    /\ \A k \in 1..Len(hooks) :
          hooks[k] = "app.finalize" =>
              (k < Len(hooks) /\ hooks[k + 1] = "app.on_start")

C11_Witness ==
    /\ restart_count >= 1
    /\ state = "started"
    /\ Count(hooks, "app.finalize") = 2
    /\ Count(hooks, "app._create_directories") = 1

\* The url the spec derives from the bound address and the port.
DerivedUrl(w) == <<"http://", w.bind, ":">> \o Format(w.port) \o <<"/">>

\* C13: the url of a Web instance is http://<bind>:<port>/, so two
\* instances bound to different addresses on one port differ in url.
C13_UrlFromBindAndPort ==
    /\ \A k \in WebIds : url[k] # None => url[k] = DerivedUrl(web[k])
    /\ \A j, k \in WebIds :
          (/\ url[j] # None
           /\ url[k] # None
           /\ web[j].bind # web[k].bind
           /\ web[j].port = web[k].port) => url[j] # url[k]

\* The graph the spec gives for server mode.
ServerGraph ==
    app.sensors
    \o <<"producer", "consumer", "_leader_assignor", "_reply_consumer">>
    \o app.agents
    \o <<"topics", "tables", "_fetcher">>

Pos(seq, x) == CHOOSE k \in 1..Len(seq) : seq[k] = x

\* In this run y is stopped only after x has been stopped.
StoppedBefore(x, y) ==
    y \in Range(stopLog) =>
        (x \in Range(stopLog) /\ Pos(stopLog, x) < Pos(stopLog, y))

\* C14: in server mode the resolved graph is sensors, producer, consumer,
\* leader assignor, reply consumer, agents, topic router, table manager,
\* fetcher; on every stop a sensor is stopped after every other declared
\* child, the producer after the consumer, the consumer after the router.
C14_ServerGraphAndStopOrder ==
    (~app.client_only /\ declared # None) =>
        /\ declared = ServerGraph
        /\ IsPrefix(declared, children)
        /\ StoppedBefore("consumer", "producer")
        /\ StoppedBefore("topics", "consumer")
        /\ \A x \in Range(app.sensors) :
              \A c \in Range(declared) \ Range(app.sensors) :
                  StoppedBefore(c, x)

C14_Witness ==
    /\ ~app.client_only
    /\ state = "stopped"
    /\ app.agents # <<>>
    /\ Len(stopLog) = Len(declared) + 1
    /\ stopLog[Len(stopLog)] = "sensor1"
    /\ stopLog[Len(stopLog) - 1] = "monitor"
    /\ Pos(stopLog, "topics") < Pos(stopLog, "consumer")
    /\ Pos(stopLog, "consumer") < Pos(stopLog, "producer")

\* The state of a child the running start() has not come to yet.
NotYetStarted == IF restart_count = 0 THEN "init" ELSE "stopped"

\* C15: while start() starts the children, the children before the
\* current one are started, the current one is the only one starting, and
\* the ones after it have not begun; on_started begins its wait only when
\* every declared child is started.
C15_ChildrenStartInTurn ==
    /\ pc \in {"children", "child_wait"} =>
          /\ state = "starting"
          /\ \A k \in 1..Len(children) :
                cstate[children[k]] =
                    IF k < idx THEN "started"
                    ELSE IF k = idx /\ pc = "child_wait" THEN "starting"
                    ELSE NotYetStarted
          /\ Cardinality({c \in Range(children) : cstate[c] = "starting"}) <= 1
          /\ \A i \in Inv : ospc[i] = "idle"
    /\ (pc = "on_started" /\ state = "started") =>
          \A c \in Range(declared) : cstate[c] = "started"

C15_Witness ==
    /\ pc = "child_wait"
    /\ idx = 3
    /\ cstate[children[1]] = "started"
    /\ cstate[children[2]] = "started"
    /\ cstate[children[3]] = "starting"
    /\ cstate[children[4]] = "init"

\* An on_started call waits on the barrier of a recovery that has not
\* completed, and a stop was requested.
StopAtBarrier(i) ==
    /\ ospc[i] = "barrier"
    /\ stopRequested
    /\ ~recovery_completed

\* The call has returned without a step, and the node is stopped with
\* every child of the graph.
StoppedAfterBarrier(i) ==
    /\ ospc[i] = "done"
    /\ outcome[i] = "interrupted"
    /\ steps[i] = <<>>
    /\ state = "stopped"
    /\ \A c \in Range(children) : cstate[c] = "stopped"

\* C12: a stop requested while on_started waits on the barrier of a
\* recovery that never completes leads to on_started returned and the
\* node stopped with every child.
C12_StopInterruptsBarrier ==
    \A i \in Inv : StopAtBarrier(i) ~> StoppedAfterBarrier(i)

C12_Witness ==
    /\ ~recovery_completed
    /\ ~app.client_only
    /\ StoppedAfterBarrier(0)
    /\ children # <<>>

\* C16: in server mode with an agent, a start that is not stopped leads
\* to an on_started that has activated the extra tasks and services and
\* called on_startup_finished, where set, and the app's on_started.
C16_StartupCompletes ==
    (~app.client_only /\ app.agents # <<>> /\ pc = "on_first_start")
        ~> (stopRequested \/ (ospc[0] = "done" /\ steps[0] = ExpectedSteps))

C16_Witness ==
    /\ ~stopRequested
    /\ restart_count = 0
    /\ ospc[0] = "done"
    /\ steps[0] = ExpectedSteps
    /\ app.on_startup_finished
    /\ Len(app._tasks) = 2
    /\ futures = TaskNames
    /\ Len(app._extra_services) = 2
    /\ \A e \in Range(ExtraInstances) : cstate[e] = "started"

\* C17: once the node is stopped no extra service is starting or started
\* and no task activity is tracked, whenever the stop came.
C17_NothingSurvivesStop ==
    state = "stopped" =>
        /\ \A e \in Range(ExtraInstances) : cstate[e] \notin {"starting", "started"}
        /\ futures = <<>>

\* C18: in either mode a first start without agents fails with
\* ImproperlyConfigured after _create_directories was called once and
\* before any other application hook; no start gets further.
C18_ZeroAgentsAnyMode ==
    app.agents = <<>> =>
        /\ pc \in {"idle", "on_first_start", "failed"}
        /\ pc # "failed" => hooks = <<>>
        /\ pc = "failed" =>
              /\ error = "ImproperlyConfigured"
              /\ hooks = <<"app._create_directories">>
        /\ \A i \in Inv : steps[i] = <<>> /\ ospc[i] = "idle"
        /\ state \in {"init", "starting", "crashed"}

C18_Witness ==
    /\ app.client_only
    /\ app.agents = <<>>
    /\ pc = "failed"
    /\ error = "ImproperlyConfigured"
    /\ hooks = <<"app._create_directories">>

\* C19: in client-only mode the table manager is not in the graph, the
\* recovery barrier is never satisfied, and no on_started gets past its
\* wait: no task is invoked, no extra service joins the graph, and
\* neither on_startup_finished nor the app's on_started is called.
C19_ClientNeverPassesBarrier ==
    app.client_only =>
        /\ "tables" \notin Range(children)
        /\ ~recovery_completed
        /\ \A i \in Inv :
              /\ outcome[i] # "passed"
              /\ steps[i] = <<>>
              /\ calls[i] = <<>>
              /\ ospc[i] \in {"idle", "barrier", "done"}
        /\ futures = <<>>
        /\ _extra_service_instances = None
        /\ declared # None => children = declared

C19_Witness ==
    /\ app.client_only
    /\ app._tasks # <<>>
    /\ app._extra_services # <<>>
    /\ app.on_startup_finished
    /\ outcome[0] = "interrupted"
    /\ outcome[1] = "interrupted"
    /\ state = "stopped"

RECURSIVE Repeat(_, _)
Repeat(seq, k) == IF k = 0 THEN <<>> ELSE seq \o Repeat(seq, k - 1)

\* The on_started calls of this run that are past the barrier.
Passed == {i \in Inv : outcome[i] = "passed"}

\* C20: until the stop of a run has cancelled them, the tracked
\* activities are one per registered task for every on_started that got
\* past the barrier in the run: one with a single on_started per start,
\* restarts included, two when a second on_started ran in the run; an
\* extra service is in the graph once however often on_started ran.
C20_TasksPerActivation ==
    /\ spc # "done" =>
          /\ \E k \in Cardinality(Passed)..(1 + reentered) :
                futures = Repeat(TaskNames, k)
          /\ reentered = 0 => \A j \in 1..Len(TaskNames) :
                                  Count(futures, TaskNames[j]) <= 1
          /\ (reentered = 1 /\ Cardinality(Passed) = 2) =>
                futures = TaskNames \o TaskNames
    /\ \A e \in Range(ExtraInstances) : Count(children, e) <= 1

C20_Witness ==
    /\ reentered = 1
    /\ Passed = {0, 1}
    /\ spc # "done"
    /\ Len(app._tasks) = 2
    /\ futures = TaskNames \o TaskNames
    /\ Len(app._extra_services) = 2
    /\ \A e \in Range(ExtraInstances) : Count(children, e) = 1

====
